---- MODULE Spec2Model ----
(***************************************************************************)
(* Job-application tracking client (React single-page app).                *)
(*                                                                         *)
(* The model follows the components of the client: the session store of    *)
(* App (localStorage + the user state), the routes of App with their       *)
(* guard, the page components (Login, Dashboard, Jobs, Applications,       *)
(* ApplicationDetail, ResumeEditor) with their useState fields, and the    *)
(* requests they have in flight.  A handler is split where the code        *)
(* awaits: the part before the await runs in the action of the user event, *)
(* the part after it (then / catch / finally) runs when the response is    *)
(* delivered.  The backend is outside the client; it is modelled by the    *)
(* REST contract of the specification.                                     *)
(*                                                                         *)
(* A handler is an operator from program state to program state (a record  *)
(* with one field per variable), so that a handler that calls login(),     *)
(* navigate() or a fetch is the composition the code performs.             *)
(***************************************************************************)
EXTENDS Integers, Sequences, FiniteSets, TLC

VARIABLES
    localStorage,   \* the browser's localStorage: a function on the keys present
    user,           \* App: useState(null), <<>> is null, <<u>> an object
    appLoading,     \* App: useState(true)
    location,       \* the router's location
    view,           \* the page component that is mounted
    Login,          \* state of the Login component
    Dashboard,      \* state of the Dashboard component
    Jobs,           \* state of the Jobs component
    Applications,   \* state of the Applications component
    ApplicationDetail, \* state of the ApplicationDetail component
    ResumeEditor,   \* state of the ResumeEditor component
    net,            \* the requests in flight
    server,         \* the backend's data
    toast,          \* the notification shown last
    event,          \* the user event or the response of the last step
    clicks,         \* the number of user events so far
    timers          \* the clipboard writes and timeouts that are pending

vars == <<localStorage, user, appLoading, location, view, Login, Dashboard, Jobs,
          Applications, ApplicationDetail, ResumeEditor, net, server, toast, event,
          clicks, timers>>

----------------------------------------------------------------------------
(* Bounds of the model *)

MaxInFlight == 2        \* requests in flight at the same time
MaxEvents == 2          \* user events of one run
MaxEntries == 1         \* entries of a list of the resume draft

----------------------------------------------------------------------------
(* Values *)

Null == <<>>                    \* null, undefined or a missing entry
Some(x) == <<x>>
IsNull(o) == Len(o) = 0
Truthy(o) == Len(o) > 0 /\ o[1] # ""

IssuedTokens == {"tok-A"}       \* tokens the backend has issued and accepts
ExpiredToken == "tok-expired"   \* a token of an earlier session, no longer accepted
DummyToken == "dummy-token"
Undefined == "undefined"        \* a field an object does not have
UserA == [id |-> "1", full_name |-> "Ann", email |-> "ann@example.org"]
EmptyObject == [id |-> Undefined, full_name |-> Undefined, email |-> Undefined]  \* {}

EmptyForm == [title |-> "", company |-> "", description |-> "",
              requirements |-> "", location |-> "", url |-> ""]
SampleForm == [title |-> "Engineer", company |-> "Acme", description |-> "Build it",
               requirements |-> "", location |-> "", url |-> ""]
EmptyLogin == [email |-> "", password |-> ""]
SampleLogin == [email |-> "ann@example.org", password |-> "pw"]
EmptyRegister == [email |-> "", password |-> "", full_name |-> ""]
SampleRegister == [email |-> "ann@example.org", password |-> "pw", full_name |-> "Ann"]
StatusInputs == {"interview", "rejected"}
FileTypes == {"application/pdf", "image/png"}

MkJob(id, f) == [id |-> id, title |-> f.title, company |-> f.company,
                 description |-> f.description, requirements |-> f.requirements,
                 location |-> f.location, url |-> f.url]
MkApplication(id, job) == [id |-> id, job_id |-> job.id, job_title |-> job.title,
                           company |-> job.company, status |-> "applied"]

Ids(seq) == {seq[i].id : i \in 1..Len(seq)}
ById(seq, id) == SelectSeq(seq, LAMBDA x : x.id = id)
Without(seq, id) == SelectSeq(seq, LAMBDA x : x.id # id)
RemoveAt(list, index) ==
    [i \in 1..(Len(list) - 1) |-> IF i < index THEN list[i] ELSE list[i + 1]]

----------------------------------------------------------------------------
(* JSON.stringify / JSON.parse of the user object.  The text is modelled   *)
(* as the sequence of the key/value pairs it holds.                        *)

(* A field that is undefined is left out of the text.                      *)

JSONstringify(u) ==
    SelectSeq(<< <<"id", u.id>>, <<"full_name", u.full_name>>, <<"email", u.email>> >>,
              LAMBDA p : p[2] # Undefined)

Lookup(s, k) ==
    IF \E i \in 1..Len(s) : s[i][1] = k
    THEN s[CHOOSE i \in 1..Len(s) : s[i][1] = k][2]
    ELSE Undefined

JSONparse(s) ==
    [id |-> Lookup(s, "id"), full_name |-> Lookup(s, "full_name"),
     email |-> Lookup(s, "email")]

----------------------------------------------------------------------------
(* localStorage *)

getItem(ls, k) == IF k \in DOMAIN ls THEN Some(ls[k]) ELSE Null
setItem(ls, k, v) == [x \in (DOMAIN ls) \cup {k} |-> IF x = k THEN v ELSE ls[x]]
removeItem(ls, k) == [x \in (DOMAIN ls) \ {k} |-> ls[x]]

----------------------------------------------------------------------------
(* Initial state of the components: the arguments of their useState calls *)

EmptyDraft == [name |-> "", email |-> "", phone |-> "", summary |-> "",
               skills |-> <<>>, experience |-> <<>>, education |-> <<>>,
               keywords |-> <<>>]

LoginInit == [loading |-> FALSE, loginData |-> EmptyLogin, registerData |-> EmptyRegister]
DashboardInit == [stats |-> Null, resume |-> Null, uploading |-> FALSE,
                  recentApplications |-> <<>>]
JobsInit == [jobs |-> <<>>, loading |-> FALSE, dialogOpen |-> FALSE, applying |-> Null,
             formData |-> EmptyForm]
ApplicationsInit == [applications |-> <<>>, filter |-> "all"]
CopiedInit == [resume |-> FALSE, cover |-> FALSE]
ApplicationDetailInit == [application |-> Null, copied |-> CopiedInit]
ResumeEditorInit == [resume |-> Null, editing |-> FALSE, saving |-> FALSE,
                     uploading |-> FALSE, editData |-> EmptyDraft]

Pages == {"Login", "Dashboard", "Jobs", "Applications", "ApplicationDetail",
          "ResumeEditor"}

----------------------------------------------------------------------------
(* The program state as one record, and its assignment to the variables *)

State ==
    [localStorage |-> localStorage, user |-> user, appLoading |-> appLoading,
     location |-> location, view |-> view, Login |-> Login, Dashboard |-> Dashboard,
     Jobs |-> Jobs, Applications |-> Applications,
     ApplicationDetail |-> ApplicationDetail, ResumeEditor |-> ResumeEditor,
     net |-> net, server |-> server, toast |-> toast, event |-> event,
     timers |-> timers]

Commit(state) ==
    \E s \in {state} :
    /\ localStorage' = s.localStorage
    /\ user' = s.user
    /\ appLoading' = s.appLoading
    /\ location' = s.location
    /\ view' = s.view
    /\ Login' = s.Login
    /\ Dashboard' = s.Dashboard
    /\ Jobs' = s.Jobs
    /\ Applications' = s.Applications
    /\ ApplicationDetail' = s.ApplicationDetail
    /\ ResumeEditor' = s.ResumeEditor
    /\ net' = s.net
    /\ server' = s.server
    /\ toast' = s.toast
    /\ event' = s.event
    /\ timers' = s.timers

Toast(s, type, msg) == [s EXCEPT !.toast = [type |-> type, msg |-> msg]]
Event(s, op, id, flag) ==
    [s EXCEPT !.event = [op |-> op, id |-> id, flag |-> flag, status |-> 0]]
\* the step delivers the response of r: flag says that its component is mounted
Response(s, r, status) ==
    [s EXCEPT !.event = [op |-> r.kind, id |-> r.id, flag |-> r.alive, status |-> status]]

----------------------------------------------------------------------------
(* Requests.  A request is sent by a component instance; "alive" says that *)
(* the instance is still mounted, so that its setState calls take effect.  *)
(* A request has one part per HTTP call (three for the Promise.all of the  *)
(* dashboard); a part has status 0 until the backend has answered it.      *)

Part(what) == [what |-> what, status |-> 0, data |-> <<>>]
NoConfig == [contentType |-> "", timeout |-> 0]
Request(kind, owner, alive, auth, id, body, parts) ==
    [kind |-> kind, owner |-> owner, alive |-> alive, auth |-> auth, id |-> id,
     body |-> body, parts |-> parts, config |-> NoConfig]
WithConfig(req, contentType, timeout) ==
    [req EXCEPT !.config = [contentType |-> contentType, timeout |-> timeout]]

\* the response of a request, as the awaiting code sees it
Ok(r) == \A k \in 1..Len(r.parts) : r.parts[k].status = 200
Rejected(r) == \E k \in 1..Len(r.parts) : r.parts[k].status \notin {0, 200}
Settled(r) == Ok(r) \/ Rejected(r)
Rejection(r) == r.parts[CHOOSE k \in 1..Len(r.parts) : r.parts[k].status \notin {0, 200}]
\* error.response?.data?.[key] || fallback
ErrorField(r, key, fallback) ==
    LET e == Rejection(r) IN
    IF Len(e.data) > 0 /\ key \in DOMAIN e.data[1] THEN e.data[1][key] ELSE fallback
Detail(r, fallback) == ErrorField(r, "detail", fallback)
\* error.message of the HTTP client
ErrorMessage(r) ==
    IF Rejection(r).status = 401 THEN "Request failed with status code 401"
    ELSE "Request failed with status code 500"

\* setState of the component that sent r: nothing once it is unmounted
Set(state, r, field, value) ==
    CHOOSE set \in
      { IF r.alive /\ s.view = r.owner THEN [s EXCEPT ![r.owner][field] = value] ELSE s
        : s \in {state} } : TRUE

\* net holds the requests in flight, in the order they were sent
HasFree(s) == Len(s.net) < MaxInFlight
InFlight(s) == 1..Len(s.net)

Send(s, req) == IF HasFree(s) THEN [s EXCEPT !.net = Append(@, req)] ELSE s

Bearer(s) == getItem(s.localStorage, "token")   \* `Bearer ${token}`

----------------------------------------------------------------------------
(* The fetches of the page components, up to their await.  API is the      *)
(* origin with "/api" appended, so `${API}/jobs` is the path /api/jobs.     *)

API == "/api"

fetchData(s, alive) ==
    Send(s, Request("fetchData", "Dashboard", alive, Bearer(s), 0, <<>>,
                    <<Part(API \o "/stats"), Part(API \o "/resume"),
                      Part(API \o "/applications")>>))

fetchJobs(s, alive) ==
    Send(s, Request("fetchJobs", "Jobs", alive, Bearer(s), 0, <<>>,
                    <<Part(API \o "/jobs")>>))

fetchApplications(s, alive) ==
    Send(s, Request("fetchApplications", "Applications", alive, Bearer(s), 0, <<>>,
                    <<Part(API \o "/applications")>>))

\* `id` is the route parameter of the render whose effect or handler runs
fetchApplication(s, alive, id) ==
    Send(s, Request("fetchApplication", "ApplicationDetail", alive, Bearer(s), id, <<>>,
                    <<Part(API \o "/applications/:id")>>))

----------------------------------------------------------------------------
(* Routing: the Routes of App.  An element is a page or a <Navigate>.      *)

Loc(path, id) == [path |-> path, id |-> id]

RECURSIVE fetchResume(_, _)

\* a guard that renders its children whatever the storage holds
ProtectedRoute_NoGuard(ls, children) == [page |-> children]

ProtectedRoute(ls, children) ==
    LET token == getItem(ls, "token") IN
    IF Truthy(token) THEN [page |-> children] ELSE [to |-> "/login"]

RouteElement(loc, ls, usr) ==
    CASE loc.path = "/login" ->
            IF ~IsNull(usr) THEN [to |-> "/"] ELSE [page |-> "Login"]
      [] loc.path = "/" -> ProtectedRoute(ls, "Dashboard")
      [] loc.path = "/jobs" -> ProtectedRoute(ls, "Jobs")
      [] loc.path = "/applications" -> ProtectedRoute(ls, "Applications")
      [] loc.path = "/applications/:id" -> ProtectedRoute(ls, "ApplicationDetail")
      \* App imports ResumeEditor and declares no route for it: the component
      \* is mounted at a location of its own, behind no guard
      [] loc.path = "(ResumeEditor)" -> [page |-> "ResumeEditor"]

\* Follows the <Navigate> elements; two routes that redirect to each other
\* never settle on a page.
RECURSIVE Resolve(_, _, _, _)
Resolve(loc, ls, usr, fuel) ==
    LET el == RouteElement(loc, ls, usr) IN
    IF "page" \in DOMAIN el THEN [location |-> loc, view |-> el.page]
    ELSE IF fuel = 0 THEN [location |-> loc, view |-> "RedirectLoop"]
    ELSE Resolve(Loc(el.to, 0), ls, usr, fuel - 1)

InitOf(page) ==
    CASE page = "Login" -> LoginInit
      [] page = "Dashboard" -> DashboardInit
      [] page = "Jobs" -> JobsInit
      [] page = "Applications" -> ApplicationsInit
      [] page = "ApplicationDetail" -> ApplicationDetailInit
      [] page = "ResumeEditor" -> ResumeEditorInit

\* The component leaves the tree: its state is gone, and the setState calls
\* of the requests it still has in flight do nothing
Unmount(s) ==
    IF s.view \notin Pages THEN s
    ELSE [s EXCEPT ![s.view] = InitOf(s.view),
                   !.net = [i \in 1..Len(s.net) |->
                              IF s.net[i].owner = s.view
                              THEN [s.net[i] EXCEPT
                                      !.alive = FALSE,
                                      !.parts = [k \in 1..Len(@) |->
                                                    [@[k] EXCEPT !.data = <<>>]]]
                              ELSE s.net[i]],
                   !.timers = [i \in 1..Len(s.timers) |->
                                 IF s.timers[i].owner = s.view
                                 THEN [s.timers[i] EXCEPT !.alive = FALSE,
                                                          !.copied = CopiedInit]
                                 ELSE s.timers[i]]]

\* useEffect(() => { fetch...() }, []) of the page that mounts
MountEffect(s, page, id) ==
    CASE page = "Dashboard" -> fetchData(s, TRUE)
      [] page = "Jobs" -> fetchJobs(s, TRUE)
      [] page = "Applications" -> fetchApplications(s, TRUE)
      [] page = "ApplicationDetail" -> fetchApplication(s, TRUE, id)
      [] page = "ResumeEditor" -> fetchResume(s, TRUE)
      [] OTHER -> s

\* The router renders the element of the location.  A page that stays the
\* same component keeps its state; ApplicationDetail runs its effect again
\* when the id changes.
\* (the state is computed once, then rendered)
Render(state) ==
    CHOOSE rendered \in
      { IF s.appLoading THEN s
        ELSE
        LET r == Resolve(s.location, s.localStorage, s.user, 3) IN
        IF r.view = s.view
        THEN IF r.view = "ApplicationDetail" /\ r.location.id # s.location.id
             THEN fetchApplication([s EXCEPT !.location = r.location], TRUE,
                                   r.location.id)
             ELSE [s EXCEPT !.location = r.location]
        ELSE LET u == [Unmount(s) EXCEPT !.location = r.location, !.view = r.view] IN
             IF r.view \in Pages
             THEN MountEffect([u EXCEPT ![r.view] = InitOf(r.view)], r.view,
                              r.location.id)
             ELSE u
        : s \in {state} } : TRUE

navigate(s, path, id) == Render([s EXCEPT !.location = Loc(path, id)])

----------------------------------------------------------------------------
(* The session store of App *)

login(s, token, userData) ==
    Render([s EXCEPT
        !.localStorage = setItem(setItem(s.localStorage, "token", token),
                                 "user", JSONstringify(userData)),
        !.user = Some(userData)])

\* a logout that leaves the stored user behind
logout_TokenOnly(s) ==
    Render([s EXCEPT !.localStorage = removeItem(s.localStorage, "token"),
                     !.user = Null])

logout(s) ==
    Render([s EXCEPT
        !.localStorage = removeItem(removeItem(s.localStorage, "token"), "user"),
        !.user = Null])

\* an effect that reads nothing from the storage
AppEffect_NoRestore(s) == Render([s EXCEPT !.appLoading = FALSE])

\* useEffect(..., []) of App
AppEffect(s) ==
    LET token == getItem(s.localStorage, "token")
        userData == getItem(s.localStorage, "user") IN
    Render([s EXCEPT
        !.user = IF Truthy(token) /\ ~IsNull(userData)   \* token && userData
                 THEN Some(JSONparse(userData[1])) ELSE s.user,
        !.appLoading = FALSE])

\* The page is loaded again: the state of the components is what useState
\* gives it, the requests of the old page are answered to nobody, and the
\* localStorage, the location and the backend are what they were.
Reload(s) ==
    [s EXCEPT !.user = Null, !.appLoading = TRUE, !.view = "Loading",
              !.Login = LoginInit, !.Dashboard = DashboardInit, !.Jobs = JobsInit,
              !.Applications = ApplicationsInit,
              !.ApplicationDetail = ApplicationDetailInit,
              !.ResumeEditor = ResumeEditorInit,
              !.net = <<>>, !.timers = <<>>, !.toast = [type |-> "", msg |-> ""]]

\* Layout
handleLogout(s) == navigate(logout(s), "/login", 0)

----------------------------------------------------------------------------
(* Login *)

handleLogin(s) ==
    Send([s EXCEPT !.Login.loading = TRUE],
         Request("handleLogin", "Login", TRUE, Null, 0, <<s.Login.loginData>>,
                 <<Part("/api/login")>>))

handleRegister(s) ==
    Send([s EXCEPT !.Login.loading = TRUE],
         Request("handleRegister", "Login", TRUE, Null, 0,
                 <<[name |-> s.Login.registerData.full_name,
                    email |-> s.Login.registerData.email,
                    password |-> s.Login.registerData.password]>>,
                 <<Part("/api/register")>>))

\* response.data.access_token || 'dummy-token', response.data.user || {}
TokenOf(data) == IF Truthy(data.access_token) THEN data.access_token[1] ELSE DummyToken
UserOf(data) == IF IsNull(data.user) THEN EmptyObject ELSE data.user[1]

\* a handler that opens a session whatever the answer is
handleLoginAwait_LogsInAnyway(s, r) ==
    LET data == IF Ok(r) THEN r.parts[1].data[1]
                ELSE [access_token |-> Null, user |-> Null]
        done == navigate(Toast(login(s, TokenOf(data), UserOf(data)),
                               "success", "Welcome back!"), "/", 0)
    IN Set(done, r, "loading", FALSE)

handleLoginAwait(s, r) ==
    LET done ==
          IF Ok(r)
          THEN LET data == r.parts[1].data[1] IN
               navigate(Toast(login(s, TokenOf(data), UserOf(data)),
                              "success", "Welcome back!"), "/", 0)
          ELSE Toast(s, "error", ErrorField(r, "message", "Login failed"))
    IN Set(done, r, "loading", FALSE)

handleRegisterAwait(s, r) ==
    LET done ==
          IF Ok(r)
          THEN LET data == r.parts[1].data[1] IN
               navigate(Toast(login(s, TokenOf(data), UserOf(data)),
                              "success", "Account created successfully!"), "/", 0)
          ELSE Toast(s, "error", ErrorField(r, "message", "Registration failed"))
    IN Set(done, r, "loading", FALSE)

----------------------------------------------------------------------------
(* Dashboard *)

\* appsRes.data.slice(0, 5)
\* a list that is not cut
Slice05_Whole(list) == list

Slice05(list) == SubSeq(list, 1, IF Len(list) < 5 THEN Len(list) ELSE 5)

\* a load that shows every response it got (Promise.allSettled)
fetchDataAwait_SetsFulfilled(s, r) ==
    LET stats == IF r.parts[1].status = 200
                 THEN Set(s, r, "stats", r.parts[1].data) ELSE s
        resume == IF r.parts[2].status = 200
                  THEN Set(stats, r, "resume", r.parts[2].data) ELSE stats IN
    IF r.parts[3].status = 200
    THEN Set(resume, r, "recentApplications", Slice05(r.parts[3].data)) ELSE resume

fetchDataAwait(s, r) ==
    IF Ok(r)
    THEN Set(Set(Set(s, r, "stats", r.parts[1].data),
                 r, "resume", r.parts[2].data),
             r, "recentApplications", Slice05(r.parts[3].data))
    ELSE s      \* console.error

DashboardHandleFileUpload(s, file) ==
    IF IsNull(file) THEN s
    ELSE Send([s EXCEPT !.Dashboard.uploading = TRUE],
              WithConfig(Request("Dashboard.handleFileUpload", "Dashboard", TRUE, Bearer(s),
                                 0, file, <<Part(API \o "/resume/upload")>>),
                         "multipart/form-data", 0))

DashboardHandleFileUploadAwait(s, r) ==
    LET done ==
          IF Ok(r)
          THEN fetchData(Toast(s, "success", "Resume uploaded and parsed successfully!"),
                         r.alive /\ s.view = r.owner)
          ELSE Toast(s, "error", Detail(r, "Upload failed"))
    IN Set(done, r, "uploading", FALSE)

----------------------------------------------------------------------------
(* Jobs *)

fetchJobsAwait(s, r) ==
    IF Ok(r) THEN Set(s, r, "jobs", r.parts[1].data)
    ELSE Toast(s, "error", "Failed to fetch jobs")

handleSubmit(s) ==
    Send([s EXCEPT !.Jobs.loading = TRUE],
         Request("handleSubmit", "Jobs", TRUE, Bearer(s), 0, <<s.Jobs.formData>>,
                 <<Part(API \o "/jobs")>>))

\* a continuation that closes the dialog and empties the form in any case
handleSubmitAwait_ClosesAlways(s, r) ==
    LET closed == Set(Set(s, r, "dialogOpen", FALSE), r, "formData", EmptyForm)
        done ==
          IF Ok(r)
          THEN fetchJobs(Toast(closed, "success", "Job added successfully!"),
                         r.alive /\ s.view = r.owner)
          ELSE Toast(closed, "error", Detail(r, "Failed to add job"))
    IN Set(done, r, "loading", FALSE)

handleSubmitAwait(s, r) ==
    LET done ==
          IF Ok(r)
          THEN fetchJobs(Set(Set(Toast(s, "success", "Job added successfully!"),
                                 r, "dialogOpen", FALSE),
                             r, "formData", EmptyForm),
                         r.alive /\ s.view = r.owner)
          ELSE Toast(s, "error", Detail(r, "Failed to add job"))
    IN Set(done, r, "loading", FALSE)

\* a handler that deletes without asking
handleDelete_NoConfirm(s, jobId, confirmed) ==
    Send(s, Request("handleDelete", "Jobs", TRUE, Bearer(s), jobId, <<>>,
                    <<Part(API \o "/jobs/:id")>>))

\* confirmed is what window.confirm returns
handleDelete(s, jobId, confirmed) ==
    IF ~confirmed THEN s
    ELSE Send(s, Request("handleDelete", "Jobs", TRUE, Bearer(s), jobId, <<>>,
                         <<Part(API \o "/jobs/:id")>>))

\* a continuation that re-fetches the list after a failure too
handleDeleteAwait_RefetchAlways(s, r) ==
    fetchJobs(IF Ok(r) THEN Toast(s, "success", "Job deleted")
              ELSE Toast(s, "error", "Failed to delete job"),
              r.alive /\ s.view = r.owner)

handleDeleteAwait(s, r) ==
    IF Ok(r)
    THEN fetchJobs(Toast(s, "success", "Job deleted"), r.alive /\ s.view = r.owner)
    ELSE Toast(s, "error", "Failed to delete job")

handleApply(s, jobId) ==
    Send(Toast([s EXCEPT !.Jobs.applying = Some(jobId)], "loading",
               "Generating tailored resume and cover letter with AI..."),
         WithConfig(Request("handleApply", "Jobs", TRUE, Bearer(s), jobId, <<>>,
                            <<Part(API \o "/applications/:jobId")>>),
                    "", 120000))

\* a continuation that goes to the applications whatever the outcome
handleApplyAwait_NavigatesAnyway(s, r) ==
    LET done ==
          navigate(IF Ok(r)
                   THEN Toast(s, "success",
                      "Application created! Tailored resume and cover letter generated.")
                   ELSE Toast(s, "error", Detail(r, "Failed to apply")),
                   "/applications", 0)
    IN Set(done, r, "applying", Null)

handleApplyAwait(s, r) ==
    LET done ==
          IF Ok(r)
          THEN navigate(Toast(s, "success",
                    "Application created! Tailored resume and cover letter generated."),
                    "/applications", 0)
          ELSE Toast(s, "error", Detail(r, "Failed to apply"))
    IN Set(done, r, "applying", Null)

----------------------------------------------------------------------------
(* Applications and ApplicationDetail *)

fetchApplicationsAwait(s, r) ==
    IF Ok(r) THEN Set(s, r, "applications", r.parts[1].data)
    ELSE Toast(s, "error", "Failed to fetch applications")

handleStatusUpdate(s, appId, newStatus) ==
    Send(s, Request("handleStatusUpdate", "Applications", TRUE, Bearer(s), appId,
                    <<[status |-> newStatus]>>, <<Part(API \o "/applications/:id/status")>>))

handleStatusUpdateAwait(s, r) ==
    IF Ok(r)
    THEN fetchApplications(Toast(s, "success", "Status updated"),
                           r.alive /\ s.view = r.owner)
    ELSE Toast(s, "error", "Failed to update status")

fetchApplicationAwait(s, r) ==
    IF Ok(r) THEN Set(s, r, "application", r.parts[1].data)
    ELSE navigate(Toast(s, "error", "Failed to fetch application details"),
                  "/applications", 0)

\* copyToClipboard of ApplicationDetail, up to its await: the handler holds
\* the `copied` of the render it was created in
copyToClipboard(s, type) ==
    [s EXCEPT !.timers = Append(@, [phase |-> "writeText", type |-> type,
                                    owner |-> "ApplicationDetail", alive |-> TRUE,
                                    copied |-> s.ApplicationDetail.copied])]

\* after the await: the write was done (written) or was refused
copyToClipboardAwait(s, t, written) ==
    IF written
    THEN LET set == Set(s, t, "copied", [t.copied EXCEPT ![t.type] = TRUE]) IN
         [Toast(set, "success", "Copied to clipboard!") EXCEPT
             !.timers = Append(@, [t EXCEPT !.phase = "setTimeout"])]
    ELSE Toast(s, "error", "Failed to copy")

\* the callback of the setTimeout
copyTimeout(s, t) == Set(s, t, "copied", [t.copied EXCEPT ![t.type] = FALSE])

----------------------------------------------------------------------------
(* ResumeEditor.  The entries of the experience and education lists are    *)
(* objects: "oid" is the identity of the object, so that a write into an   *)
(* object is seen through every list that holds it.                        *)

WithOids(list) == [i \in 1..Len(list) |-> list[i] @@ [oid |-> i]]
Oids(list) == {list[i].oid : i \in 1..Len(list)}
FreshOid(used) == CHOOSE n \in 1..(Cardinality(used) + 1) : n \notin used

\* the objects of a response body, as the client holds them
Parsed(data) ==
    [data EXCEPT !.parsed_data =
        IF IsNull(data.parsed_data) THEN Null
        ELSE Some([data.parsed_data[1] EXCEPT
                      !.experience = WithOids(@), !.education = WithOids(@)])]

AllowedTypes == {"application/pdf", "text/plain", "application/msword",
    "application/vnd.openxmlformats-officedocument.wordprocessingml.document"}

fetchResume(s, alive) ==
    LET token == getItem(s.localStorage, "token") IN
    IF ~Truthy(token)
    THEN navigate(Toast(s, "error", "Please log in to continue"), "/login", 0)
    ELSE Send(s, Request("fetchResume", "ResumeEditor", alive, token, 0, <<>>,
                         <<Part(API \o "/api/resume")>>))

\* parsed.x || default, for the fields of response.data.parsed_data || {}
DraftOf(parsed_data) ==
    IF IsNull(parsed_data) THEN EmptyDraft
    ELSE LET parsed == parsed_data[1] IN
         [name |-> parsed.name, email |-> parsed.email, phone |-> parsed.phone,
          summary |-> parsed.summary, skills |-> parsed.skills,
          experience |-> parsed.experience, education |-> parsed.education,
          keywords |-> parsed.keywords]

fetchResumeAwait(s, r) ==
    IF Ok(r)
    THEN IF IsNull(r.parts[1].data) THEN s
         ELSE LET data == Parsed(r.parts[1].data[1]) IN
              Set(Set(s, r, "resume", Some(data)), r, "editData", DraftOf(data.parsed_data))
    ELSE IF Rejection(r).status = 401
         THEN navigate(Toast(s, "error", "Session expired. Please log in again."),
                       "/login", 0)
         ELSE s

ResumeEditorHandleFileUpload(s, file) ==
    IF IsNull(file) THEN s
    ELSE IF file[1].type \notin AllowedTypes
    THEN Toast(s, "error", "Only PDF, DOC, DOCX, or TXT files are allowed.")
    ELSE LET up == [s EXCEPT !.ResumeEditor.uploading = TRUE]
             token == getItem(s.localStorage, "token") IN
         IF ~Truthy(token)
         THEN navigate(Toast(up, "error", "Authentication required"), "/login", 0)
         ELSE Send(up, WithConfig(Request("ResumeEditor.handleFileUpload", "ResumeEditor",
                                          TRUE, token, 0, file,
                                          <<Part(API \o "/api/resume/upload")>>),
                                  "", 30000))

\* a continuation that clears the flag in its success branch only
ResumeEditorHandleFileUploadAwait_NoFinally(s, r) ==
    IF Ok(r)
    THEN Set(fetchResume(Toast(s, "success", "Resume uploaded and parsed successfully!"),
                         r.alive /\ s.view = r.owner),
             r, "uploading", FALSE)
    ELSE Toast(s, "error",
               ErrorField(r, "detail", ErrorField(r, "error", ErrorMessage(r))))

ResumeEditorHandleFileUploadAwait(s, r) ==
    LET done ==
          IF Ok(r)
          THEN fetchResume(Toast(s, "success", "Resume uploaded and parsed successfully!"),
                           r.alive /\ s.view = r.owner)
          ELSE Toast(s, "error",
                     ErrorField(r, "detail", ErrorField(r, "error", ErrorMessage(r))))
    IN Set(done, r, "uploading", FALSE)

\* a save that sends the fields of the fetched resume
handleSave_SendsFetched(s) ==
    IF IsNull(s.ResumeEditor.resume) THEN s
    ELSE Send([s EXCEPT !.ResumeEditor.saving = TRUE],
              Request("handleSave", "ResumeEditor", TRUE, Bearer(s),
                      s.ResumeEditor.resume[1].id,
                      <<DraftOf(s.ResumeEditor.resume[1].parsed_data)>>,
                      <<Part(API \o "/api/resume/:id")>>))

handleSave(s) ==
    IF IsNull(s.ResumeEditor.resume) THEN s
    ELSE Send([s EXCEPT !.ResumeEditor.saving = TRUE],
              Request("handleSave", "ResumeEditor", TRUE, Bearer(s),
                      s.ResumeEditor.resume[1].id, <<s.ResumeEditor.editData>>,
                      <<Part(API \o "/api/resume/:id")>>))

handleSaveAwait(s, r) ==
    LET done ==
          IF Ok(r)
          THEN LET t1 == Set(Toast(s, "success", "Resume updated successfully!"),
                             r, "editing", FALSE)
               IN fetchResume(t1, r.alive /\ t1.view = r.owner)
          ELSE Toast(s, "error", Detail(r, "Failed to save resume"))
    IN Set(done, r, "saving", FALSE)

\* onClick of the Edit and the Cancel button
Edit(s) == [s EXCEPT !.ResumeEditor.editing = TRUE]
Cancel(s) == fetchResume([s EXCEPT !.ResumeEditor.editing = FALSE], TRUE)

\* onChange of the name, email, phone and summary inputs
setField(s, field, value) == [s EXCEPT !.ResumeEditor.editData[field] = value]

addSkill(s) == [s EXCEPT !.ResumeEditor.editData.skills = Append(@, "")]
updateSkill(s, index, value) ==
    [s EXCEPT !.ResumeEditor.editData.skills = [@ EXCEPT ![index] = value]]
\* a removal that drops the last entry, whatever the index
removeSkill_Last(s, index) ==
    [s EXCEPT !.ResumeEditor.editData.skills = SubSeq(@, 1, Len(@) - 1)]

removeSkill(s, index) ==
    [s EXCEPT !.ResumeEditor.editData.skills = RemoveAt(@, index)]

\* the objects the component can reach through its state
KnownOids(s, list) ==
    Oids(s.ResumeEditor.editData[list]) \cup
    (IF IsNull(s.ResumeEditor.resume) \/ IsNull(s.ResumeEditor.resume[1].parsed_data)
     THEN {} ELSE Oids(s.ResumeEditor.resume[1].parsed_data[1][list]))

\* object[field] = value: every list that holds the object shows the write
WriteField(list, oid, field, value) ==
    [i \in 1..Len(list) |->
        IF list[i].oid = oid THEN [list[i] EXCEPT ![field] = value] ELSE list[i]]

\* newList = [...editData[list]]; newList[index][field] = value; setEditData(...)
UpdateEntry(s, list, index, field, value) ==
    LET oid == s.ResumeEditor.editData[list][index].oid
        e == [s EXCEPT !.ResumeEditor.editData[list] = WriteField(@, oid, field, value)]
    IN IF IsNull(e.ResumeEditor.resume) \/ IsNull(e.ResumeEditor.resume[1].parsed_data)
       THEN e
       ELSE [e EXCEPT !.ResumeEditor.resume[1].parsed_data[1][list] =
                          WriteField(@, oid, field, value)]

addExperience(s) ==
    [s EXCEPT !.ResumeEditor.editData.experience =
        Append(@, [oid |-> FreshOid(KnownOids(s, "experience")), title |-> "",
                   company |-> "", duration |-> "", description |-> ""])]
updateExperience(s, index, field, value) == UpdateEntry(s, "experience", index, field, value)
removeExperience(s, index) ==
    [s EXCEPT !.ResumeEditor.editData.experience = RemoveAt(@, index)]

addEducation(s) ==
    [s EXCEPT !.ResumeEditor.editData.education =
        Append(@, [oid |-> FreshOid(KnownOids(s, "education")), degree |-> "",
                   institution |-> "", year |-> ""])]
updateEducation(s, index, field, value) == UpdateEntry(s, "education", index, field, value)
removeEducation(s, index) ==
    [s EXCEPT !.ResumeEditor.editData.education = RemoveAt(@, index)]

----------------------------------------------------------------------------
(* The backend, from the REST contract of the specification: it answers    *)
(* one call at a time, accepts the tokens it has issued, and assigns the   *)
(* ids of what it creates.                                                 *)

ParsedA == [name |-> "Ann", email |-> "ann@example.org", phone |-> "", summary |-> "",
            skills |-> <<"TLA+">>,
            experience |-> <<[title |-> "Developer", company |-> "Acme",
                              duration |-> "", description |-> ""]>>,
            education |-> <<>>, keywords |-> <<>>]
ResumeA == [id |-> 1, file_name |-> "cv.pdf", parsed_data |-> Some(ParsedA)]

LoginResponses ==
    {[access_token |-> Some("tok-A"), user |-> Some(UserA)],
     [access_token |-> Null, user |-> Null]}

Accepts(auth) == ~IsNull(auth) /\ auth[1] \in IssuedTokens
NeedsAuth(r) == r.kind \notin {"handleLogin", "handleRegister"}

\* JSON of the draft: the entries without the identity of their objects
Plain(e) == [f \in (DOMAIN e) \ {"oid"} |-> e[f]]
PlainList(list) == [i \in 1..Len(list) |-> Plain(list[i])]
PlainDraft(d) == [d EXCEPT !.experience = PlainList(@), !.education = PlainList(@)]

\* A call that needs a session and carries no accepted token is answered
\* with 401; any call may fail for another reason.
FailStatus(r) == IF NeedsAuth(r) /\ ~Accepts(r.auth) THEN 401 ELSE 500

\* what the call can be answered with, when it succeeds
CanServe(s, r, k) ==
    /\ NeedsAuth(r) => Accepts(r.auth)
    /\ CASE r.kind = "handleDelete" -> r.id \in Ids(s.server.jobs)
         [] r.kind = "handleApply" -> r.id \in Ids(s.server.jobs)
         [] r.kind = "handleStatusUpdate" -> r.id \in Ids(s.server.applications)
         [] r.kind = "fetchApplication" -> r.id \in Ids(s.server.applications)
         [] r.kind = "handleSave" ->
                ~IsNull(s.server.resume) /\ s.server.resume[1].id = r.id
         [] OTHER -> TRUE

ResponseData(s, r, k, choice) ==
    CASE r.kind = "fetchData" /\ k = 1 ->
                <<[total_applications |-> Len(s.server.applications)]>>
      [] r.kind = "fetchData" /\ k = 2 -> s.server.resume
      [] r.kind = "fetchData" /\ k = 3 -> s.server.applications
      [] r.kind = "fetchJobs" -> s.server.jobs
      [] r.kind = "fetchApplications" -> s.server.applications
      [] r.kind = "fetchApplication" -> ById(s.server.applications, r.id)
      [] r.kind = "fetchResume" -> s.server.resume
      [] r.kind \in {"handleLogin", "handleRegister"} -> <<choice>>
      [] OTHER -> <<>>

ServerAfter(s, r) ==
    CASE r.kind = "handleSubmit" ->
            [s.server EXCEPT !.jobs = Append(@, MkJob(s.server.nextJob, r.body[1])),
                             !.nextJob = @ + 1]
      [] r.kind = "handleDelete" -> [s.server EXCEPT !.jobs = Without(@, r.id)]
      [] r.kind = "handleApply" ->
            [s.server EXCEPT
                !.applications = Append(@, MkApplication(s.server.nextApplication,
                                                         ById(s.server.jobs, r.id)[1])),
                !.nextApplication = @ + 1]
      [] r.kind = "handleStatusUpdate" ->
            [s.server EXCEPT !.applications =
                [i \in 1..Len(@) |-> IF @[i].id = r.id
                                     THEN [@[i] EXCEPT !.status = r.body[1].status]
                                     ELSE @[i]]]
      [] r.kind \in {"Dashboard.handleFileUpload", "ResumeEditor.handleFileUpload"} ->
            [s.server EXCEPT !.resume = Some(ResumeA)]
      [] r.kind = "handleSave" ->
            [s.server EXCEPT !.resume[1].parsed_data = Some(PlainDraft(r.body[1]))]
      [] OTHER -> s.server

\* the response body is kept for the code that will read it: the setState
\* calls of an unmounted component read nothing
Reads(r) == r.alive \/ r.kind \in {"handleLogin", "handleRegister"}

ServeOk(s, i, k, choice) ==
    LET r == s.net[i] IN
    [s EXCEPT !.net[i].parts[k] =
                  [@ EXCEPT !.status = 200,
                            !.data = IF Reads(r) THEN ResponseData(s, r, k, choice)
                                     ELSE <<>>],
              !.server = ServerAfter(s, r)]

\* a call that fails changes nothing at the backend
ServeFail(s, i, k, status) ==
    [s EXCEPT !.net[i].parts[k].status = status]

----------------------------------------------------------------------------
(* The response arrives: the code after the await runs *)

Await(s, r) ==
    CASE r.kind = "handleLogin" -> handleLoginAwait(s, r)
      [] r.kind = "handleRegister" -> handleRegisterAwait(s, r)
      [] r.kind = "fetchData" -> fetchDataAwait(s, r)
      [] r.kind = "Dashboard.handleFileUpload" -> DashboardHandleFileUploadAwait(s, r)
      [] r.kind = "fetchJobs" -> fetchJobsAwait(s, r)
      [] r.kind = "handleSubmit" -> handleSubmitAwait(s, r)
      [] r.kind = "handleDelete" -> handleDeleteAwait(s, r)
      [] r.kind = "handleApply" -> handleApplyAwait(s, r)
      [] r.kind = "fetchApplications" -> fetchApplicationsAwait(s, r)
      [] r.kind = "handleStatusUpdate" -> handleStatusUpdateAwait(s, r)
      [] r.kind = "fetchApplication" -> fetchApplicationAwait(s, r)
      [] r.kind = "fetchResume" -> fetchResumeAwait(s, r)
      [] r.kind = "ResumeEditor.handleFileUpload" -> ResumeEditorHandleFileUploadAwait(s, r)
      [] r.kind = "handleSave" -> handleSaveAwait(s, r)

Deliver(state, i) ==
    CHOOSE delivered \in
      { Await([s EXCEPT !.net = RemoveAt(@, i)], s.net[i]) : s \in {state} } : TRUE

----------------------------------------------------------------------------
(* Initial states: the page is loaded at some location, with whatever the  *)
(* storage and the backend hold from earlier sessions.                     *)

StorageOf(keys, token) ==
    [k \in keys |-> IF k = "token" THEN token ELSE JSONstringify(UserA)]
NoSession == StorageOf({}, "")
Storages ==
    {NoSession, StorageOf({"token", "user"}, "tok-A"),
     StorageOf({"token", "user"}, ExpiredToken)}

JobA == MkJob(1, SampleForm)
Server(jobs, apps, resume) ==
    [jobs |-> jobs, nextJob |-> Len(jobs) + 1,
     applications |-> apps, nextApplication |-> Len(apps) + 1, resume |-> resume]
Servers == {Server(<<>>, <<>>, Null), Server(<<JobA>>, <<MkApplication(1, JobA)>>, Null)}

RoutedLocations ==
    {Loc("/login", 0), Loc("/", 0), Loc("/jobs", 0), Loc("/applications", 0),
     Loc("/applications/:id", 1)}

InitWith(locations, servers) ==
    /\ localStorage \in Storages
    /\ user = Null
    /\ appLoading = TRUE
    /\ location \in locations
    /\ view = "Loading"
    /\ Login = LoginInit
    /\ Dashboard = DashboardInit
    /\ Jobs = JobsInit
    /\ Applications = ApplicationsInit
    /\ ApplicationDetail = ApplicationDetailInit
    /\ ResumeEditor = ResumeEditorInit
    /\ net = <<>>
    /\ server \in servers
    /\ toast = [type |-> "", msg |-> ""]
    /\ event = [op |-> "", id |-> 0, flag |-> FALSE, status |-> 0]
    /\ clicks = 0
    /\ timers = <<>>

Init == InitWith(RoutedLocations, Servers)

----------------------------------------------------------------------------
(* Actions: one per effect, user event and network step *)

Do(op, id, flag, s) == Commit(Event(s, op, id, flag)) /\ UNCHANGED clicks

\* a user event, while the run has events left
User(op, id, flag, s) ==
    /\ clicks < MaxEvents
    /\ Commit(Event(s, op, id, flag))
    /\ clicks' = clicks + 1

Start ==
    /\ appLoading
    /\ Do("", 0, FALSE, AppEffect(State))

HasLayout == view \in {"Dashboard", "Jobs", "Applications", "ApplicationDetail",
                       "ResumeEditor"}

\* Layout: onClick of a navigation item
NavLink ==
    /\ HasLayout /\ HasFree(State)
    /\ \E path \in {"/", "/jobs", "/applications"} :
          User("navigate", 0, FALSE, navigate(State, path, 0))

\* Applications, Dashboard: onClick of an application that is listed
ViewApplication ==
    /\ HasFree(State)
    /\ \E id \in (IF view = "Applications" THEN Ids(Applications.applications)
                  ELSE IF view = "Dashboard" THEN Ids(Dashboard.recentApplications)
                  ELSE {}) :
          User("navigate", id, FALSE, navigate(State, "/applications/:id", id))

Logout ==
    /\ HasLayout
    /\ User("handleLogout", 0, FALSE, handleLogout(State))

\* A form is submitted with what its inputs hold: the onChange handlers have
\* put d into the state, the required fields are filled, the button is enabled
HandleLogin ==
    /\ view = "Login" /\ ~Login.loading /\ HasFree(State)
    /\ \E d \in {SampleLogin} :
          /\ d.email # "" /\ d.password # ""
          /\ User("handleLogin", 0, FALSE,
                  handleLogin([State EXCEPT !.Login.loginData = d]))

HandleRegister ==
    /\ view = "Login" /\ ~Login.loading /\ HasFree(State)
    /\ \E d \in {SampleRegister} :
          /\ d.email # "" /\ d.password # "" /\ d.full_name # ""
          /\ User("handleRegister", 0, FALSE,
                  handleRegister([State EXCEPT !.Login.registerData = d]))

DashboardUpload ==
    /\ view = "Dashboard" /\ ~Dashboard.uploading /\ HasFree(State)
    /\ \E file \in {Null} \cup {Some([type |-> ty]) : ty \in FileTypes} :
          User("Dashboard.handleFileUpload", 0, ~IsNull(file),
             DashboardHandleFileUpload(State, file))

\* Jobs: the form of the dialog is submitted, with the dialog open
\* (setDialogOpen) and f in its inputs (setFormData)
HandleSubmit ==
    /\ view = "Jobs" /\ ~Jobs.loading /\ HasFree(State)
    /\ \E f \in {SampleForm} :
          /\ f.title # "" /\ f.company # "" /\ f.description # ""
          /\ User("handleSubmit", 0, FALSE,
                  handleSubmit([State EXCEPT !.Jobs.dialogOpen = TRUE,
                                             !.Jobs.formData = f]))

HandleDelete ==
    /\ view = "Jobs" /\ HasFree(State)
    /\ \E jobId \in Ids(Jobs.jobs), confirmed \in BOOLEAN :
          User("handleDelete", jobId, confirmed, handleDelete(State, jobId, confirmed))

HandleApply ==
    /\ view = "Jobs" /\ HasFree(State)
    /\ \E jobId \in Ids(Jobs.jobs) :
          /\ Jobs.applying # Some(jobId)
          /\ User("handleApply", jobId, FALSE, handleApply(State, jobId))

HandleStatusUpdate ==
    /\ view = "Applications" /\ HasFree(State)
    /\ \E appId \in Ids(Applications.applications), newStatus \in StatusInputs :
          /\ ById(Applications.applications, appId)[1].status # newStatus
          /\ User("handleStatusUpdate", appId, FALSE,
                handleStatusUpdate(State, appId, newStatus))

\* the backend answers a call that is waiting
Serve ==
    \E i \in InFlight(State) : \E k \in 1..Len(net[i].parts) :
        /\ net[i].parts[k].status = 0
        /\ CanServe(State, net[i], k)
        /\ \E choice \in (IF net[i].kind \in {"handleLogin", "handleRegister"}
                          THEN LoginResponses ELSE {LoginResponses}) :
              Do("", 0, FALSE, ServeOk(State, i, k, choice))

\* the response reaches the client
Respond ==
    \E i \in InFlight(State) :
        /\ Ok(net[i])
        /\ Commit(Response(Deliver(State, i), net[i], 200))
        /\ UNCHANGED clicks

\* a call that is waiting fails, and the rejection reaches the client
Reject ==
    \E i \in InFlight(State) : \E k \in 1..Len(net[i].parts) :
        /\ net[i].parts[k].status = 0
        /\ Commit(Response(Deliver(ServeFail(State, i, k, FailStatus(net[i])), i),
                            net[i], FailStatus(net[i])))
        /\ UNCHANGED clicks

\* ResumeEditor: onChange of the file inputs
ResumeEditorUpload ==
    /\ view = "ResumeEditor" /\ ~ResumeEditor.uploading /\ HasFree(State)
    /\ \E file \in {Null} \cup {Some([type |-> ty]) : ty \in FileTypes} :
          User("ResumeEditor.handleFileUpload", 0, ~IsNull(file),
               ResumeEditorHandleFileUpload(State, file))

\* the buttons and inputs below are rendered once a resume is there
EditorShown == view = "ResumeEditor" /\ ~IsNull(ResumeEditor.resume)
Editing == EditorShown /\ ResumeEditor.editing

EditClick ==
    /\ EditorShown /\ ~ResumeEditor.editing
    /\ Do("", 0, FALSE, Edit(State))

CancelClick ==
    /\ Editing /\ HasFree(State)
    /\ User("Cancel", 0, FALSE, Cancel(State))

HandleSave ==
    /\ Editing /\ ~ResumeEditor.saving /\ HasFree(State)
    /\ User("handleSave", 0, FALSE, handleSave(State))

DraftFields == {"name", "summary"}
DraftValues == {"New"}

SetField ==
    /\ Editing
    /\ \E field \in DraftFields, value \in DraftValues :
          /\ ResumeEditor.editData[field] # value
          /\ User("setField", 0, FALSE, setField(State, field, value))

SkillOps ==
    /\ Editing
    /\ \/ /\ Len(ResumeEditor.editData.skills) < MaxEntries
          /\ User("addSkill", 0, FALSE, addSkill(State))
       \/ \E index \in 1..Len(ResumeEditor.editData.skills) :
             \/ \E value \in DraftValues :
                   /\ ResumeEditor.editData.skills[index] # value
                   /\ User("updateSkill", index, FALSE, updateSkill(State, index, value))
             \/ User("removeSkill", index, FALSE, removeSkill(State, index))

ExperienceOps ==
    /\ Editing
    /\ \/ /\ Len(ResumeEditor.editData.experience) < MaxEntries
          /\ User("addExperience", 0, FALSE, addExperience(State))
       \/ \E index \in 1..Len(ResumeEditor.editData.experience) :
             \/ \E value \in DraftValues :
                   /\ ResumeEditor.editData.experience[index].title # value
                   /\ User("updateExperience", index, FALSE, updateExperience(State, index, "title", value))
             \/ User("removeExperience", index, FALSE, removeExperience(State, index))

EducationOps ==
    /\ Editing
    /\ \/ /\ Len(ResumeEditor.editData.education) < MaxEntries
          /\ User("addEducation", 0, FALSE, addEducation(State))
       \/ \E index \in 1..Len(ResumeEditor.editData.education) :
             \/ \E value \in DraftValues :
                   /\ ResumeEditor.editData.education[index].degree # value
                   /\ User("updateEducation", index, FALSE, updateEducation(State, index, "degree", value))
             \/ User("removeEducation", index, FALSE, removeEducation(State, index))

\* Another tab of the application logs out: logout() there removes the two
\* entries of the localStorage the tabs share; nothing renders in this tab.
OtherTabLogout ==
    /\ ~appLoading /\ DOMAIN localStorage # {}
    /\ User("", 0, FALSE,
            [State EXCEPT !.localStorage =
                removeItem(removeItem(localStorage, "token"), "user")])

Next ==
    \/ Start
    \/ NavLink
    \/ ViewApplication
    \/ Logout
    \/ HandleLogin
    \/ HandleRegister
    \/ DashboardUpload
    \/ HandleSubmit
    \/ HandleDelete
    \/ HandleApply
    \/ HandleStatusUpdate
    \/ Serve
    \/ Respond
    \/ Reject

\* the routed application, one tab
Spec == Init /\ [][Next]_vars

\* the routed application, with a second tab that shares the localStorage
NextShared == Next \/ OtherTabLogout
SpecShared == Init /\ [][NextShared]_vars

\* the ResumeEditor component, mounted
InitEditor ==
    InitWith({Loc("(ResumeEditor)", 0)},
             {Server(<<>>, <<>>, Null), Server(<<>>, <<>>, Some(ResumeA))})

NextEditor ==
    \/ Start
    \/ NavLink
    \/ Logout
    \/ ResumeEditorUpload
    \/ EditClick
    \/ CancelClick
    \/ HandleSave
    \/ SetField
    \/ SkillOps
    \/ ExperienceOps
    \/ EducationOps
    \/ Serve
    \/ Respond
    \/ Reject

SpecEditor == InitEditor /\ [][NextEditor]_vars

\* the routed application and the ResumeEditor component
InitAll == Init \/ InitEditor

NextAll ==
    \/ Next
    \/ ResumeEditorUpload
    \/ EditClick
    \/ CancelClick
    \/ HandleSave
    \/ SetField
    \/ SkillOps
    \/ ExperienceOps
    \/ EducationOps

SpecAll == InitAll /\ [][NextAll]_vars

\* the same, with the second tab, and a network that answers: a request
\* that is in flight gets its response or its rejection in the end
NextAllShared == NextAll \/ OtherTabLogout
Answered == Serve \/ Respond \/ Reject
SpecAnswered == InitAll /\ [][NextAllShared]_vars /\ WF_vars(Answered)

\* the user reloads the page
ReloadPage ==
    /\ ~appLoading
    /\ User("reload", 0, FALSE, Reload(State))

\* the routed application, with reloads of the page
NextReload == Next \/ ReloadPage
SpecReload == Init /\ [][NextReload]_vars

\* the routed application, opened on a backend that holds more applications
\* than the dashboard lists
Applied == 6
InitDashboard ==
    InitWith({Loc("/", 0)},
             {Server(<<JobA>>, [i \in 1..n |-> MkApplication(i, JobA)], Null) :
                 n \in {1, Applied}})
SpecDashboard == InitDashboard /\ [][Next]_vars

\* the routed application, opened at /jobs on a backend that holds two jobs
JobB == MkJob(2, SampleForm)
InitJobs == InitWith({Loc("/jobs", 0)}, {Server(<<JobA, JobB>>, <<>>, Null)})
SpecJobs == InitJobs /\ [][Next]_vars

\* the routed application, opened at the detail of the first of two
\* applications
InitDetail ==
    InitWith({Loc("/applications/:id", 1)},
             {Server(<<JobA, JobB>>, <<MkApplication(1, JobA), MkApplication(2, JobB)>>,
                     Null)})
SpecDetail == InitDetail /\ [][Next]_vars

\* ApplicationDetail: the copy buttons of the two documents, which are
\* rendered once the application is there
CopyTypes == {"resume", "cover"}
Copy ==
    /\ view = "ApplicationDetail" /\ ~IsNull(ApplicationDetail.application)
    /\ \E type \in CopyTypes :
          User("copyToClipboard", 0, FALSE, copyToClipboard(State, type))

\* navigator.clipboard.writeText settles
ClipboardWrite ==
    \E i \in 1..Len(timers) : \E written \in BOOLEAN :
        /\ timers[i].phase = "writeText"
        /\ Do("writeText", 0, timers[i].alive,
              copyToClipboardAwait([State EXCEPT !.timers = RemoveAt(@, i)],
                                   timers[i], written))

\* the oldest timeout fires (all have the same delay)
Timeout ==
    \E i \in 1..Len(timers) :
        /\ timers[i].phase = "setTimeout"
        /\ \A j \in 1..(i - 1) : timers[j].phase # "setTimeout"
        /\ Do("setTimeout", 0, timers[i].alive,
              copyTimeout([State EXCEPT !.timers = RemoveAt(@, i)], timers[i]))

\* the routed application at the detail of an application, with its copy
\* buttons
NextCopy == Next \/ Copy \/ ClipboardWrite \/ Timeout
SpecCopy == InitDetail /\ [][NextCopy]_vars

\* The editor in edit mode on a fetched resume whose lists hold up to two
\* entries; the user works on the lists of the draft.
MaxList == 3
ExperienceB == [title |-> "Tester", company |-> "Bolt", duration |-> "", description |-> ""]
EducationA == [degree |-> "BSc", institution |-> "Uni", year |-> "2020"]
EducationB == [degree |-> "MSc", institution |-> "Uni", year |-> "2022"]
Resumes ==
    {[ResumeA EXCEPT !.parsed_data =
         Some([ParsedA EXCEPT !.skills = skills, !.experience = experience,
                              !.education = education])] :
       skills \in {<<>>, <<"TLA+">>, <<"TLA+", "Go">>},
       experience \in {<<>>, ParsedA.experience, ParsedA.experience \o <<ExperienceB>>},
       education \in {<<>>, <<EducationA>>, <<EducationA, EducationB>>}}

InitDraft ==
    /\ localStorage = StorageOf({"token", "user"}, "tok-A")
    /\ user = Some(UserA)
    /\ appLoading = FALSE
    /\ location = Loc("(ResumeEditor)", 0)
    /\ view = "ResumeEditor"
    /\ Login = LoginInit
    /\ Dashboard = DashboardInit
    /\ Jobs = JobsInit
    /\ Applications = ApplicationsInit
    /\ ApplicationDetail = ApplicationDetailInit
    /\ \E fetched \in Resumes :
          /\ server = Server(<<>>, <<>>, Some(fetched))
          /\ ResumeEditor = [ResumeEditorInit EXCEPT
                                !.resume = Some(Parsed(fetched)),
                                !.editData = DraftOf(Parsed(fetched).parsed_data),
                                !.editing = TRUE]
    /\ net = <<>>
    /\ toast = [type |-> "", msg |-> ""]
    /\ event = [op |-> "", id |-> 0, flag |-> FALSE, status |-> 0]
    /\ clicks = 0
    /\ timers = <<>>

ExperienceFields == {"title", "company"}
EducationFields == {"degree", "year"}

DraftListOps ==
    /\ Editing
    /\ LET d == ResumeEditor.editData IN
       \/ /\ Len(d.skills) < MaxList
          /\ User("addSkill", 0, FALSE, addSkill(State))
       \/ \E index \in 1..Len(d.skills), value \in DraftValues :
             User("updateSkill", index, FALSE, updateSkill(State, index, value))
       \/ \E index \in 1..Len(d.skills) :
             User("removeSkill", index, FALSE, removeSkill(State, index))
       \/ /\ Len(d.experience) < MaxList
          /\ User("addExperience", 0, FALSE, addExperience(State))
       \/ \E index \in 1..Len(d.experience), field \in ExperienceFields,
              value \in DraftValues :
             User("updateExperience", index, FALSE,
                  updateExperience(State, index, field, value))
       \/ \E index \in 1..Len(d.experience) :
             User("removeExperience", index, FALSE, removeExperience(State, index))
       \/ /\ Len(d.education) < MaxList
          /\ User("addEducation", 0, FALSE, addEducation(State))
       \/ \E index \in 1..Len(d.education), field \in EducationFields,
              value \in DraftValues :
             User("updateEducation", index, FALSE,
                  updateEducation(State, index, field, value))
       \/ \E index \in 1..Len(d.education) :
             User("removeEducation", index, FALSE, removeEducation(State, index))

SpecDraft == InitDraft /\ [][DraftListOps]_vars

----------------------------------------------------------------------------
(* Properties.  A step that delivers a response leaves in event' the       *)
(* request (op, id), whether its component was mounted (flag) and the      *)
(* HTTP status; the step of a user event leaves status 0.                  *)

ProtectedViews == {"Dashboard", "Jobs", "Applications", "ApplicationDetail"}
TokenStored == Truthy(getItem(localStorage, "token"))
Delivered(op, statuses) == event'.op = op /\ event'.status \in statuses
\* the step sends one more request than it completes
Sends(kind) == Len(net') = Len(net) + 1 /\ net'[Len(net')].kind = kind

\* C1: when a request is answered with 401, the stored session is cleared
\* and the login view is displayed, whichever view sent the request.
C1_UnauthorizedEndsSession ==
    [][event'.status = 401 =>
          /\ DOMAIN localStorage' = {}
          /\ user' = Null
          /\ view' = "Login"]_vars

\* C2: a file whose MIME type is none of PDF, TXT, DOC and DOCX is rejected
\* by the upload handler of the Dashboard and by that of the ResumeEditor
\* before any request: no upload in flight carries such a file.
UploadKinds == {"Dashboard.handleFileUpload", "ResumeEditor.handleFileUpload"}
C2_UploadsOfAllowedTypesOnly ==
    \A i \in 1..Len(net) :
        net[i].kind \in UploadKinds => net[i].body[1].type \in AllowedTypes

\* C3: after a mutation of the view has succeeded and every request has
\* completed, the list the view displays is the list the backend holds,
\* whatever the order in which overlapping mutations and re-fetches were
\* answered.
C3_DisplayedIsServerStateWhenQuiet ==
    /\ (view = "Applications" /\ net = <<>> /\ toast.msg = "Status updated")
          => Applications.applications = server.applications
    /\ (view = "Jobs" /\ net = <<>>
          /\ toast.msg \in {"Job added successfully!", "Job deleted"})
          => Jobs.jobs = server.jobs

\* C4: Cancel leaves edit mode and restores every field of the draft to the
\* values of the last successful fetch of the resume, whatever the outcome
\* of the re-fetch it starts: out of edit mode with no request left and no
\* save or upload since, the draft is the fetched resume.
C4_CancelRestoresDraft ==
    (/\ view = "ResumeEditor"
     /\ ~ResumeEditor.editing
     /\ ~IsNull(ResumeEditor.resume)
     /\ net = <<>>
     /\ toast.type # "success")
        => ResumeEditor.editData = DraftOf(ResumeEditor.resume[1].parsed_data)

\* C5: handleDelete sends its DELETE request only after the confirmation
\* dialog was accepted; when it is declined no request is sent and nothing
\* changes, at the client or at the backend.
C5_DeleteOnlyAfterConfirm ==
    [][/\ (event'.op = "handleDelete" /\ event'.status = 0 /\ ~event'.flag)
             => UNCHANGED <<localStorage, user, appLoading, location, view, Login,
                            Dashboard, Jobs, Applications, ApplicationDetail,
                            ResumeEditor, net, server, toast>>
       /\ Sends("handleDelete")
             => event' = [op |-> "handleDelete", id |-> net'[Len(net')].id,
                          flag |-> TRUE, status |-> 0]]_vars

\* the confirmation was declined, with a job listed
C5_Declined ==
    /\ event.op = "handleDelete" /\ event.status = 0 /\ ~event.flag
    /\ view = "Jobs" /\ Jobs.jobs # <<>>

\* C6: login(token, user) stores the token and the serialized user and makes
\* the user the current one; logout() removes both entries and sets the
\* user to null, so that every protected route redirects to the login view
\* and the login view is displayed, not redirected away.
C6_LoginAndLogout ==
    [][/\ \A op \in {"handleLogin", "handleRegister"} :
             Delivered(op, {200}) =>
                \E i \in 1..Len(net) :
                    /\ net[i].kind = op /\ Ok(net[i])
                    /\ LET data == net[i].parts[1].data[1] IN
                       /\ getItem(localStorage', "token") = Some(TokenOf(data))
                       /\ getItem(localStorage', "user")
                             = Some(JSONstringify(UserOf(data)))
                       /\ user' = Some(UserOf(data))
       /\ event'.op = "handleLogout" =>
             /\ DOMAIN localStorage' \cap {"token", "user"} = {}
             /\ user' = Null
             /\ \A loc \in RoutedLocations :
                   Resolve(loc, localStorage', user', 3)
                      = [location |-> Loc("/login", 0), view |-> "Login"]
             /\ view' = "Login" /\ location' = Loc("/login", 0)]_vars

\* a logout of the session that a login of this run established
C6_LoggedOutAfterLogin ==
    /\ event.op = "handleLogout" /\ toast.msg = "Welcome back!"
    /\ view = "Login" /\ user = Null

MutatingKinds ==
    {"handleSubmit", "handleDelete", "handleApply", "handleStatusUpdate",
     "handleSave", "Dashboard.handleFileUpload", "ResumeEditor.handleFileUpload"}
\* the handlers that return before they read the token: no file, no confirmation
ReturnsEarly(e) ==
    e.op \in {"handleDelete", "Dashboard.handleFileUpload",
              "ResumeEditor.handleFileUpload"} /\ ~e.flag
C8_NoMutationWithoutToken ==
    [][(event'.op \in MutatingKinds /\ event'.status = 0 /\ ~TokenStored)
          => /\ net' = net
             /\ ReturnsEarly(event') \/
                   /\ DOMAIN localStorage' \cap {"token", "user"} = {}
                   /\ user' = Null
                   /\ view' = "Login"]_vars

\* C9: after a login or a registration that succeeded, the stored token and
\* the stored and current user are those of the response of the backend, and
\* the dashboard is displayed: no session holds a token or a user that the
\* backend did not issue.
C9_SessionIsWhatTheServerIssued ==
    [][\A op \in {"handleLogin", "handleRegister"} :
          Delivered(op, {200}) =>
             \E i \in 1..Len(net) :
                 /\ net[i].kind = op /\ Ok(net[i])
                 /\ LET data == net[i].parts[1].data[1] IN
                    /\ getItem(localStorage', "token") = data.access_token
                    /\ user' = data.user
                    /\ ~IsNull(data.user)
                    /\ getItem(localStorage', "user") = Some(JSONstringify(data.user[1]))
                    /\ view' = "Dashboard"]_vars

\* C10, as the specification has it: after an apply to job j that succeeded
\* the applications view is displayed and fetches its list; after one that
\* failed nothing navigates and the view displayed stays.
C10_ApplyNavigatesOrStays ==
    [][/\ Delivered("handleApply", {200}) =>
             /\ view' = "Applications"
             /\ \E i \in 1..Len(net') :
                   net'[i].kind = "fetchApplications" /\ net'[i].alive
       /\ Delivered("handleApply", {401, 500}) =>
             /\ location' = location
             /\ view' = view]_vars

Range(seq) == {seq[i] : i \in 1..Len(seq)}

\* C10, amended: when the success response of an apply to job j reaches the
\* Jobs view that sent it, with the token still stored, the applications
\* view is mounted and sends its list fetch in that step, after the backend
\* has created the application for j; a list fetch that is answered carries
\* the list the backend holds then, which loses no application, and the
\* view displays the list of the response it receives.  When the apply
\* fails, handleApply navigates nowhere: location and view stay as they are.
C10_ApplyThenListFetch ==
    [][/\ (Delivered("handleApply", {200}) /\ event'.flag /\ TokenStored) =>
             /\ view' = "Applications" /\ location' = Loc("/applications", 0)
             /\ Applications' = ApplicationsInit
             /\ Len(net') > 0
             /\ LET f == net'[Len(net')] IN
                   /\ f.kind = "fetchApplications" /\ f.alive
                   /\ f.parts[1].status = 0
             /\ \E a \in Range(server'.applications) : a.job_id = event'.id
       /\ Ids(server.applications) \subseteq Ids(server'.applications)
       /\ (event'.status = 0 /\ Len(net') = Len(net)) =>
             \A i \in 1..Len(net) :
                 (/\ net[i].kind = "fetchApplications" /\ net[i].alive
                  /\ net[i].parts[1].status = 0 /\ net'[i].parts[1].status = 200)
                    => net'[i].parts[1].data = server.applications
       /\ (Delivered("fetchApplications", {200}) /\ event'.flag) =>
             \E i \in 1..Len(net) :
                 /\ net[i].kind = "fetchApplications" /\ net[i].alive /\ Ok(net[i])
                 /\ Applications'.applications = net[i].parts[1].data
       /\ Delivered("handleApply", {401, 500}) =>
             /\ location' = location
             /\ view' = view]_vars

\* the success response of an apply has mounted the applications view
C10_AppliedAndNavigated ==
    /\ event.op = "handleApply" /\ event.status = 200 /\ event.flag
    /\ view = "Applications" /\ Len(net) > 0
    /\ \E a \in Range(server.applications) : a.job_id = event.id

\* the mutations that are followed by a re-fetch, and the fetch of each
RefetchOf(kind) ==
    CASE kind \in {"handleSubmit", "handleDelete"} -> "fetchJobs"
      [] kind = "handleStatusUpdate" -> "fetchApplications"
      [] kind = "Dashboard.handleFileUpload" -> "fetchData"
      [] kind \in {"ResumeEditor.handleFileUpload", "handleSave"} -> "fetchResume"
RefetchedKinds ==
    {"handleSubmit", "handleDelete", "handleStatusUpdate",
     "Dashboard.handleFileUpload", "ResumeEditor.handleFileUpload", "handleSave"}
IsPending(r) == \A k \in 1..Len(r.parts) : r.parts[k].status = 0

\* C11: the re-fetch of a mutation (create job, delete job, status update,
\* resume upload, resume save) is sent in the step that receives the success
\* response of the mutation, not by the handler before its await, and no
\* request is sent when the mutation fails.
C11_RefetchAfterSuccessOnly ==
    [][\A op \in RefetchedKinds :
          \* the handler sends the mutation and nothing else
          /\ (event'.op = op /\ event'.status = 0) =>
                \/ Len(net') <= Len(net)
                \/ /\ net' = Append(net, net'[Len(net')])
                   /\ net'[Len(net')].kind = op
          \* success: the mutation leaves, its re-fetch is sent, still unanswered
          /\ Delivered(op, {200}) =>
                \E i \in 1..Len(net) :
                    /\ net[i].kind = op /\ Ok(net[i])
                    /\ \/ /\ Len(net') = Len(net)
                          /\ SubSeq(net', 1, Len(net) - 1) = RemoveAt(net, i)
                          /\ net'[Len(net')].kind = RefetchOf(op)
                          /\ IsPending(net'[Len(net')])
                       \* fetchResume sends nothing when no token is stored
                       \/ /\ RefetchOf(op) = "fetchResume"
                          /\ ~TokenStored
                          /\ Len(net') = Len(net) - 1
          \* failure: the mutation leaves, nothing is sent
          /\ Delivered(op, {401, 500}) =>
                \E i \in 1..Len(net) :
                    net[i].kind = op /\ net' = RemoveAt(net, i)]_vars

\* a status update has succeeded and its re-fetch is in flight
C11_RefetchSent ==
    /\ event.op = "handleStatusUpdate" /\ event.status = 200
    /\ Len(net) > 0 /\ net[Len(net)].kind = "fetchApplications"
    /\ IsPending(net[Len(net)])

\* what the views display and hold, without their busy flags
Shown ==
    [jobs |-> Jobs.jobs, dialogOpen |-> Jobs.dialogOpen, formData |-> Jobs.formData,
     applications |-> Applications.applications, filter |-> Applications.filter,
     application |-> ApplicationDetail, stats |-> Dashboard.stats,
     dashboardResume |-> Dashboard.resume,
     recentApplications |-> Dashboard.recentApplications,
     resume |-> ResumeEditor.resume, editing |-> ResumeEditor.editing,
     editData |-> ResumeEditor.editData]
Busy ==
    [loading |-> Jobs.loading, applying |-> Jobs.applying,
     dashboardUploading |-> Dashboard.uploading,
     uploading |-> ResumeEditor.uploading, saving |-> ResumeEditor.saving]
\* the busy flag that the handler of a mutation sets, if it sets one
BusyFlagOf(kind) ==
    CASE kind = "handleSubmit" -> {"loading"}
      [] kind = "handleApply" -> {"applying"}
      [] kind = "Dashboard.handleFileUpload" -> {"dashboardUploading"}
      [] kind = "ResumeEditor.handleFileUpload" -> {"uploading"}
      [] kind = "handleSave" -> {"saving"}
      [] OTHER -> {}

\* C12: when a mutation (create job, delete job, status update, apply,
\* resume upload, resume save) fails, an error message is shown and the
\* state of the view is untouched: lists, resume, form, draft, dialog and
\* edit mode are what they were, and so are location, view and session;
\* only the busy flag of the handler changes.
C12_FailureLeavesStateUntouched ==
    [][\A op \in MutatingKinds :
          Delivered(op, {401, 500}) =>
             /\ toast'.type = "error"
             /\ Shown' = Shown
             /\ \A f \in (DOMAIN Busy) \ BusyFlagOf(op) : Busy'[f] = Busy[f]
             /\ UNCHANGED <<location, view, localStorage, user, server, Login>>]_vars

\* the creation of a job has failed with the dialog open and the form filled
C12_SubmitFailed ==
    /\ event.op = "handleSubmit" /\ event.status = 500 /\ event.flag
    /\ toast = [type |-> "error", msg |-> "Failed to add job"]
    /\ Jobs.dialogOpen /\ Jobs.formData = SampleForm /\ ~Jobs.loading

\* the busy flags of the views
BusyFlags ==
    {"Login.loading", "Jobs.loading", "Jobs.applying", "Dashboard.uploading",
     "ResumeEditor.uploading", "ResumeEditor.saving"}
IsBusy(f) ==
    CASE f = "Login.loading" -> Login.loading
      [] f = "Jobs.loading" -> Jobs.loading
      [] f = "Jobs.applying" -> ~IsNull(Jobs.applying)
      [] f = "Dashboard.uploading" -> Dashboard.uploading
      [] f = "ResumeEditor.uploading" -> ResumeEditor.uploading
      [] f = "ResumeEditor.saving" -> ResumeEditor.saving

C14_EveryFailureNotifies ==
    [][event'.status \in {401, 500} => toast'.type = "error"]_vars

DraftOps ==
    {"setField", "addSkill", "updateSkill", "removeSkill",
     "addExperience", "updateExperience", "removeExperience",
     "addEducation", "updateEducation", "removeEducation"}
Saves(n) == {i \in 1..Len(n) : n[i].kind = "handleSave"}

\* C15: in edit mode a draft operation (a field edit; add, update or remove
\* of a skill, experience or education entry) sends no request and leaves
\* the backend alone; a PUT of the resume is sent by handleSave only, and
\* its body is the draft as it is when Save is clicked.
C15_SaveOnlyOnSave ==
    [][/\ (event'.op \in DraftOps /\ event'.status = 0) =>
             /\ ResumeEditor.editing /\ ResumeEditor'.editing
             /\ UNCHANGED <<net, server>>
       /\ Cardinality(Saves(net')) > Cardinality(Saves(net)) =>
             /\ event'.op = "handleSave" /\ event'.status = 0
             /\ ResumeEditor.editing
             /\ net' = Append(net, net'[Len(net')])
             /\ net'[Len(net')].kind = "handleSave"
             /\ net'[Len(net')].body = <<ResumeEditor.editData>>
             /\ ~IsNull(ResumeEditor.resume)
             /\ net'[Len(net')].id = ResumeEditor.resume[1].id]_vars

\* Save has been clicked on a draft that differs from the fetched resume;
\* the PUT in flight carries that draft, and the backend still holds the
\* fields it had
C15_EditedDraftSent ==
    /\ event.op = "handleSave" /\ event.status = 0
    /\ Len(net) > 0 /\ net[Len(net)].kind = "handleSave"
    /\ net[Len(net)].body = <<ResumeEditor.editData>>
    /\ ~IsNull(ResumeEditor.resume)
    /\ ResumeEditor.editData # DraftOf(ResumeEditor.resume[1].parsed_data)
    /\ server.resume = Some(ResumeA)

ListOps == DraftOps \ {"setField"}
\* the entry objects of `before` that `after` still holds are as they were
SameObjects(before, after) ==
    \A i \in 1..Len(before), j \in 1..Len(after) :
        after[j].oid = before[i].oid => after[j] = before[i]

\* C16: an append, update-at-index or remove-at-index on the skills,
\* experience or education list of the draft replaces the draft and writes
\* into nothing that existed: the fetched resume and the entry objects of
\* the previous draft are as they were.
C16_ListOpsCopyAndReplace ==
    [][(event'.op \in ListOps /\ event'.status = 0) =>
          /\ ResumeEditor'.resume = ResumeEditor.resume
          /\ SameObjects(ResumeEditor.editData.experience,
                         ResumeEditor'.editData.experience)
          /\ SameObjects(ResumeEditor.editData.education,
                         ResumeEditor'.editData.education)]_vars

\* C17: when the three GETs of the dashboard have succeeded and the
\* dashboard is still mounted, it holds the stats and the resume of the
\* responses, and the first 5 applications of the response, in its order,
\* or all of them when there are fewer.
C17_DashboardShowsResponses ==
    [][(Delivered("fetchData", {200}) /\ event'.flag) =>
          \E i \in 1..Len(net) :
              /\ net[i].kind = "fetchData" /\ Ok(net[i]) /\ net[i].alive
              /\ net' = RemoveAt(net, i)
              /\ LET all == net[i].parts[3].data
                     n == Len(all)
                     shown == Dashboard'.recentApplications IN
                 /\ Dashboard'.stats = net[i].parts[1].data
                 /\ Dashboard'.resume = net[i].parts[2].data
                 /\ Len(shown) = (IF n < 5 THEN n ELSE 5)
                 /\ \A k \in 1..Len(shown) : shown[k] = all[k]]_vars

\* the dashboard shows five of the six applications of the backend
C17_FiveOfSix ==
    /\ event.op = "fetchData" /\ event.status = 200 /\ event.flag
    /\ view = "Dashboard"
    /\ Len(server.applications) = Applied
    /\ Len(Dashboard.recentApplications) = 5
    /\ Dashboard.recentApplications = SubSeq(server.applications, 1, 5)

\* what the effect of App makes of the localStorage
StoredUser(ls) ==
    IF Truthy(getItem(ls, "token")) /\ ~IsNull(getItem(ls, "user"))
    THEN Some(JSONparse(getItem(ls, "user")[1])) ELSE Null

\* C18: the session outlives a reload.  A reload keeps the localStorage,
\* and the start of the application makes the user of the two entries it
\* finds there; while the application runs, those entries are the user it
\* holds: after a login the user that was logged in, after a logout none.
C18_SessionSurvivesReload ==
    [][/\ event'.op = "reload" =>
             /\ appLoading' /\ user' = Null
             /\ localStorage' = localStorage
       /\ (appLoading /\ ~appLoading') =>
             /\ user' = StoredUser(localStorage)
             /\ localStorage' = localStorage
       /\ ~appLoading' => StoredUser(localStorage') = user'
       /\ (Delivered("handleLogin", {200}) \/ Delivered("handleRegister", {200})) =>
             /\ ~IsNull(user') /\ TokenStored'
       /\ event'.op = "handleLogout" =>
             /\ IsNull(user') /\ DOMAIN localStorage' = {}]_vars

\* the page has been reloaded after a login whose response held no token and
\* no user: the application has started again with the user {} of the login
C18_ReloadedAfterLogin ==
    /\ ~appLoading /\ toast.type = ""
    /\ getItem(localStorage, "token") = Some(DummyToken)
    /\ user = Some(EmptyObject)

\* C19: no upload request, of the dashboard or of the editor, sets a
\* Content-Type header.
C19_UploadsSetNoContentType ==
    \A i \in 1..Len(net) :
        net[i].kind \in UploadKinds => net[i].config.contentType = ""

\* C20: every upload request has a timeout of 30 seconds and every apply
\* request one of 120 seconds (axios counts in milliseconds).
C20_UploadAndApplyTimeouts ==
    \A i \in 1..Len(net) :
        /\ net[i].kind \in UploadKinds => net[i].config.timeout = 30000
        /\ net[i].kind = "handleApply" => net[i].config.timeout = 120000

\* the paths of the resume, relative to the origin of the backend
ResumePaths(r) ==
    CASE r.kind = "fetchData" -> <<r.parts[2].what, "/api/resume">>
      [] r.kind = "fetchResume" -> <<r.parts[1].what, "/api/resume">>
      [] r.kind \in UploadKinds -> <<r.parts[1].what, "/api/resume/upload">>
      [] r.kind = "handleSave" -> <<r.parts[1].what, "/api/resume/:id">>
      [] OTHER -> <<"", "">>

\* C21: every request that reads or writes the resume goes to GET
\* /api/resume, POST /api/resume/upload or PUT /api/resume/{id} of the
\* backend, from the dashboard and from the editor alike.
C21_ResumeEndpoints ==
    \A i \in 1..Len(net) : ResumePaths(net[i])[1] = ResumePaths(net[i])[2]

ListOf(op) ==
    CASE op \in {"addSkill", "updateSkill", "removeSkill"} -> "skills"
      [] op \in {"addExperience", "updateExperience", "removeExperience"} -> "experience"
      [] op \in {"addEducation", "updateEducation", "removeEducation"} -> "education"
\* the values of a list, without the identity of the entry objects
Entries(list, entries) == IF list = "skills" THEN entries ELSE PlainList(entries)
EmptyEntry(list) ==
    CASE list = "skills" -> ""
      [] list = "experience" ->
            [title |-> "", company |-> "", duration |-> "", description |-> ""]
      [] list = "education" -> [degree |-> "", institution |-> "", year |-> ""]
\* entry b is entry a with at most one field changed (a skill has no fields)
OneFieldApart(list, a, b) ==
    list = "skills" \/ \E f \in DOMAIN a : \A g \in (DOMAIN a) \ {f} : b[g] = a[g]

\* C22: on the skills, experience and education lists of the draft, append
\* gives the old list followed by one empty entry; update at index i keeps
\* the length and every other entry, and changes one field of entry i at
\* most; remove at index i gives the old list without entry i, in order;
\* and no operation changes another field of the draft.
C22_ListOperations ==
    [][(event'.op \in ListOps /\ event'.status = 0) =>
          LET list == ListOf(event'.op)
              old == Entries(list, ResumeEditor.editData[list])
              new == Entries(list, ResumeEditor'.editData[list])
              i == event'.id IN
          /\ \A f \in (DOMAIN ResumeEditor.editData) \ {list} :
                ResumeEditor'.editData[f] = ResumeEditor.editData[f]
          /\ event'.op \in {"addSkill", "addExperience", "addEducation"} =>
                new = Append(old, EmptyEntry(list))
          /\ event'.op \in {"updateSkill", "updateExperience", "updateEducation"} =>
                /\ i \in 1..Len(old) /\ Len(new) = Len(old)
                /\ \A j \in (1..Len(old)) \ {i} : new[j] = old[j]
                /\ OneFieldApart(list, old[i], new[i])
          /\ event'.op \in {"removeSkill", "removeExperience", "removeEducation"} =>
                /\ i \in 1..Len(old) /\ Len(new) = Len(old) - 1
                /\ \A j \in 1..Len(new) : new[j] = (IF j < i THEN old[j] ELSE old[j + 1])
         ]_vars

\* the first of two skills has been removed: the second one is left
C22_FirstSkillRemoved ==
    /\ event.op = "removeSkill" /\ event.id = 1 /\ clicks = 1
    /\ ResumeEditor.editData.skills = <<"Go">>
    /\ ResumeEditor.resume[1].parsed_data[1].skills = <<"TLA+", "Go">>

\* C23: once the application has started, a token is stored if and only
\* if there is a user, so that the guard of the protected routes and the
\* login route agree; the two never redirect to each other.
C23_GuardAndLoginRouteAgree ==
    ~appLoading =>
        /\ TokenStored <=> ~IsNull(user)
        /\ view # "RedirectLoop"

\* C24: while the apply request for a job is in flight, the apply button
\* of that job is disabled (applying === job.id) in the Jobs view that
\* sent it, whatever happens to the applies for other jobs.
C24_ApplyStaysDisabled ==
    \A i \in 1..Len(net) :
        (net[i].kind = "handleApply" /\ net[i].alive /\ view = "Jobs") =>
            Jobs.applying = Some(net[i].id)

\* the step delivers the response of a fetch of an application while the
\* route shows another application
LateForRoute ==
    /\ event'.op = "fetchApplication" /\ event'.status # 0
    /\ view = "ApplicationDetail" /\ event'.id # location.id

\* C25: the response of a fetch for application a that arrives when the
\* route shows application b changes neither what is displayed nor the
\* location; and when no fetch of the detail view is
\* in flight, the application it displays is the one of the route.
C25_LateResponsesAreDropped ==
    [][/\ LateForRoute => UNCHANGED <<location, view, ApplicationDetail>>
       /\ ( /\ view' = "ApplicationDetail"
            /\ \A i \in 1..Len(net') : net'[i].kind # "fetchApplication"
            /\ ~IsNull(ApplicationDetail'.application) ) =>
               ApplicationDetail'.application[1].id = location'.id]_vars

\* C26: while the editor stays in edit mode the draft changes only by a
\* draft operation of the user: the response of a resume fetch does not
\* replace it.
C26_DraftIsTheUsers ==
    [][(ResumeEditor.editing /\ ResumeEditor'.editing
          /\ ResumeEditor'.editData # ResumeEditor.editData) =>
             (event'.op \in DraftOps /\ event'.status = 0)]_vars

\* the writes and timeouts of a document that the mounted view waits for
PendingOf(pending, type) ==
    {i \in 1..Len(pending) : pending[i].type = type /\ pending[i].alive}
\* the step fires a timeout that copying the document has started
Fired(type) ==
    /\ event'.op = "setTimeout" /\ event'.flag
    /\ \E i \in PendingOf(timers, type) :
          timers[i].phase = "setTimeout" /\ timers' = RemoveAt(timers, i)

\* C27: in ApplicationDetail the timeout started by copying one document
\* leaves the indicator of the other document as it is, and the indicator
\* of a document is false once no write and no timeout of that document is
\* pending.
C27_CopiedIndicators ==
    [][/\ \A type \in CopyTypes : Fired(type) =>
             \A other \in CopyTypes \ {type} :
                ApplicationDetail'.copied[other] = ApplicationDetail.copied[other]
       /\ \A type \in CopyTypes :
             (view' = "ApplicationDetail" /\ PendingOf(timers', type) = {}) =>
                ~ApplicationDetail'.copied[type]]_vars

\* what the dashboard has loaded
Loaded(dashboard) ==
    <<dashboard.stats, dashboard.resume, dashboard.recentApplications>>
\* the step shows the three responses of a load in flight
ShowsLoad(i) ==
    /\ net[i].kind = "fetchData" /\ Ok(net[i])
    /\ Loaded(Dashboard') = <<net[i].parts[1].data, net[i].parts[2].data,
                              Slice05(net[i].parts[3].data)>>

\* C28: the load of the dashboard is all or nothing: while the dashboard is
\* displayed, a load of which a request fails changes none of stats, resume
\* and recent applications, and the three change only together, to the
\* three responses of a load whose requests all succeeded.
C28_LoadIsAllOrNothing ==
    [][(view = "Dashboard" /\ view' = "Dashboard") =>
          /\ Delivered("fetchData", {401, 500}) =>
                Loaded(Dashboard') = Loaded(Dashboard)
          /\ Loaded(Dashboard') # Loaded(Dashboard) =>
                /\ Delivered("fetchData", {200})
                /\ \E i \in 1..Len(net) : ShowsLoad(i)]_vars

\* a load has failed on the displayed dashboard, which shows nothing
C28_LoadFailed ==
    /\ view = "Dashboard" /\ event.op = "fetchData" /\ event.flag
    /\ event.status = 500
    /\ Loaded(Dashboard) = Loaded(DashboardInit)
    /\ \A i \in 1..Len(net) : net[i].kind # "fetchData"

\* C29: a login or a registration that fails opens no session: the storage
\* is as it was and the user is still null, the login view stays at its
\* location, and of the form only the loading flag changes, which is false
\* afterwards.
C29_FailedLoginChangesNothing ==
    [][(Delivered("handleLogin", {401, 500}) \/ Delivered("handleRegister", {401, 500})) =>
          /\ UNCHANGED <<localStorage, user, location, view>>
          /\ user' = Null /\ ~TokenStored'
          /\ view' = "Login"
          /\ Login.loading
          /\ Login' = [Login EXCEPT !.loading = FALSE]]_vars

\* a login has failed: the form still holds what was typed
C29_LoginFailed ==
    /\ view = "Login" /\ event.op = "handleLogin" /\ event.status = 500
    /\ Login = [LoginInit EXCEPT !.loginData = SampleLogin]
    /\ toast = [type |-> "error", msg |-> "Login failed"]
    /\ user = Null /\ ~TokenStored

====
